---- MODULE Spec2Model ----
(***************************************************************************)
(* Icon resolution and normalization pipeline of web-apps                  *)
(* (src/src/common.rs): image_handle, find_icon, find_icons, move_icon,    *)
(* convert_raster_to_svg_format, icon_cache_get and                        *)
(* get_icon_name_from_url.                                                 *)
(*                                                                         *)
(* Strings are sequences of one-character strings, so that substring       *)
(* search, extension extraction and character replacement are computed.    *)
(* Image bytes are abstracted to what the two decoders make of them: a     *)
(* vector document with a declared size, a raster image with pixel         *)
(* dimensions, or bytes neither decoder accepts.                           *)
(***************************************************************************)
EXTENDS Integers, Sequences, FiniteSets, TLC

VARIABLES
    \* image_handle
    ih_pc, ih_path, ih_net, ih_fs, ih_bytes, ih_ret, ih_src,
    \* find_icons / find_icon
    fi_pc, fi_name, fi_url, fi_result, fi_icons, fi_dims, fi_steps,
    fi_fav, fi_user, fi_sys,
    \* move_icon / convert_raster_to_svg_format
    mi_status, mi_panic, mi_ret, mi_in, mi_wrote, disk, dirExists,
    \* icon_cache_get
    ic_pc, ic_key, ic_ret, ic_lock, ic_cache, ic_loads, ic_hist,
    \* get_icon_name_from_url
    gn_pc, gn_url, gn_host, gn_parts, gn_status, gn_panic, gn_ret

ihVars == <<ih_pc, ih_path, ih_net, ih_fs, ih_bytes, ih_ret, ih_src>>
fiVars == <<fi_pc, fi_name, fi_url, fi_result, fi_icons, fi_dims, fi_steps,
            fi_fav, fi_user, fi_sys>>
miVars == <<mi_status, mi_panic, mi_ret, mi_in, mi_wrote, disk, dirExists>>
icVars == <<ic_pc, ic_key, ic_ret, ic_lock, ic_cache, ic_loads, ic_hist>>
gnVars == <<gn_pc, gn_url, gn_host, gn_parts, gn_status, gn_panic, gn_ret>>
vars == <<ihVars, fiVars, miVars, icVars, gnVars>>

----------------------------------------------------------------------------
(* Program constants and bounds *)

\* size.width() >= 64.0 / img.width() >= 64 in find_icon
SearchThreshold == 64
\* size.width() >= 96.0 / image.width() >= 96 in image_handle
DirectThreshold == 96
\* the raster size of the normalization scenario (32x32)
SmallSize == 32

\* number of directory entries one walk yields at most
MaxWalk == 2
\* number of UI callbacks querying the cache concurrently
NumThreads == 2
\* number of dot-separated labels a host has at most
MaxLabels == 3

----------------------------------------------------------------------------
(* Strings *)

Letters == {"a", "b", "g", "h", "n", "p", "s", "v", "A", "B"}

\* the index of the last occurrence of c in s, 0 when there is none
LastIndexOf(s, c) ==
    LET I == {i \in 1..Len(s) : s[i] = c}
    IN  IF I = {} THEN 0 ELSE CHOOSE i \in I : \A j \in I : j <= i

\* the index of the first occurrence of c in s, 0 when there is none
FirstIndexOf(s, c) ==
    LET I == {i \in 1..Len(s) : s[i] = c}
    IN  IF I = {} THEN 0 ELSE CHOOSE i \in I : \A j \in I : i <= j

\* Url::parse(url).is_ok(): an absolute URL needs a scheme, a non-empty run
\* of scheme characters followed by ':'; a string without one is a relative
\* reference, which Url::parse rejects for want of a base.
url_valid(s) ==
    LET i == FirstIndexOf(s, ":")
    IN  /\ i >= 2
        /\ \A j \in 1..(i - 1) : s[j] \in Letters

\* Path::file_name: the last component of the path
file_name(s) == SubSeq(s, LastIndexOf(s, "/") + 1, Len(s))

\* Path::extension: the part of the file name after its last '.', none (the
\* empty string here) when there is no '.' or the name only starts with one
extension(s) ==
    LET f == file_name(s)
        d == LastIndexOf(f, ".")
    IN  IF d <= 1 THEN <<>> ELSE SubSeq(f, d + 1, Len(f))

SvgExt == <<"s", "v", "g">>
PngExt == <<"p", "n", "g">>

\* is_svg: never for a URL, else the extension is exactly "svg"
is_svg(path) == ~url_valid(path) /\ extension(path) = SvgExt

\* str::contains: frag occurs in s as a contiguous substring
contains(s, frag) ==
    \E i \in 1..(Len(s) - Len(frag) + 1) : SubSeq(s, i, i + Len(frag) - 1) = frag

\* output_name.replace(' ', "")
RECURSIVE remove_spaces(_)
remove_spaces(s) ==
    IF s = <<>> THEN <<>>
    ELSE IF Head(s) = " " THEN remove_spaces(Tail(s))
    ELSE <<Head(s)>> \o remove_spaces(Tail(s))

----------------------------------------------------------------------------
(* Image bytes and the two decoders *)

Garbage == [kind |-> "garbage", w |-> 0, h |-> 0]

Content(S) ==
    {Garbage} \cup [kind : {"vector", "raster"}, w : S, h : S]

\* usvg::Tree::from_data / from_str followed by parsed.size()
vector_parse(c) ==
    IF c.kind = "vector" THEN [ok |-> TRUE, w |-> c.w, h |-> c.h]
    ELSE [ok |-> FALSE, w |-> 0, h |-> 0]

\* ImageReader::new(Cursor).with_guessed_format().decode() and
\* load_from_memory: the format is taken from the content.  No bytes are both
\* an SVG document and an image of a format the image crate guesses from
\* its magic number, so the two decoders never both succeed.
raster_decode(c) ==
    IF c.kind = "raster" THEN [ok |-> TRUE, w |-> c.w, h |-> c.h]
    ELSE [ok |-> FALSE, w |-> 0, h |-> 0]

\* the size test both decoders' results are put to
big_enough(d, t) == d.w >= t /\ d.h >= t

----------------------------------------------------------------------------
(* image_handle *)

DirectSizes == {DirectThreshold - 1, DirectThreshold}
DirectContent == Content(DirectSizes)

IhRefs == {
    <<"h", ":", "/", "a", ".", "p", "n", "g">>,
    <<"h", ":", "/", "a", ".", "s", "v", "g">>,
    <<"/", "a", ".", "p", "n", "g">>,
    <<"/", "a", ".", "s", "v", "g">>,
    <<"/", "a">> }

\* what the network does with the GET: send() fails, or a response arrives
\* (with a success status or not) whose body can be read or not
NoNet == [send |-> "none", success |-> FALSE, bodyOk |-> FALSE, body |-> Garbage]
NetOutcomes ==
    {[send |-> "err", success |-> FALSE, bodyOk |-> FALSE, body |-> Garbage]}
    \cup {[send |-> "ok", success |-> s, bodyOk |-> FALSE, body |-> Garbage] :
              s \in BOOLEAN}
    \cup [send : {"ok"}, success : BOOLEAN, bodyOk : {TRUE}, body : DirectContent]

\* what the filesystem holds at the reference taken as a path
NoFile == [isFile |-> FALSE, openOk |-> FALSE, readOk |-> FALSE, content |-> Garbage]
FsOutcomes ==
    {NoFile}
    \cup {[isFile |-> TRUE, openOk |-> FALSE, readOk |-> FALSE, content |-> c] :
              c \in DirectContent}
    \cup [isFile : {TRUE}, openOk : {TRUE}, readOk : BOOLEAN, content : DirectContent]

None == [some |-> FALSE, icon |-> "-", path |-> <<>>, is_favicon |-> FALSE]
Icon(icon, path, is_favicon) ==
    [some |-> TRUE, icon |-> icon, path |-> path, is_favicon |-> is_favicon]

NoSrc == [origin |-> "none", content |-> Garbage]

IhInit ==
    /\ ih_pc = "idle"
    /\ ih_path = <<>>
    /\ ih_net = NoNet
    /\ ih_fs = NoFile
    /\ ih_bytes = Garbage
    /\ ih_ret = None
    /\ ih_src = NoSrc

\* entry of image_handle(path)
IhCall ==
    /\ ih_pc = "idle"
    /\ \E p \in IhRefs, n \in NetOutcomes, f \in FsOutcomes :
          /\ ih_path' = p
          /\ ih_net' = IF url_valid(p) THEN n ELSE NoNet
          /\ ih_fs' = f
          /\ ih_pc' = IF url_valid(p) THEN "send" ELSE "local"
    /\ UNCHANGED <<ih_bytes, ih_ret, ih_src>>

\* Client::new().get(&path).send().await
IhSend ==
    /\ ih_pc = "send"
    /\ ih_pc' = IF ih_net.send = "ok" THEN "body" ELSE "local"
    /\ UNCHANGED <<ih_path, ih_net, ih_fs, ih_bytes, ih_ret, ih_src>>

\* response.bytes().await; the status of the response is not looked at
IhBody ==
    /\ ih_pc = "body"
    /\ IF ih_net.bodyOk
       THEN ih_bytes' = ih_net.body /\ ih_pc' = "vector"
       ELSE ih_bytes' = ih_bytes /\ ih_pc' = "local"
    /\ UNCHANGED <<ih_path, ih_net, ih_fs, ih_ret, ih_src>>

\* fault injection: IhVector without the size test
IhVectorMutAcceptAny ==
    /\ ih_pc = "vector"
    /\ IF vector_parse(ih_bytes).ok
       THEN /\ ih_ret' = Icon("Svg", ih_path, TRUE)
            /\ ih_src' = [origin |-> "remote", content |-> ih_bytes]
            /\ ih_pc' = "done"
       ELSE /\ ih_pc' = "raster"
            /\ UNCHANGED <<ih_ret, ih_src>>
    /\ UNCHANGED <<ih_path, ih_net, ih_fs, ih_bytes>>

\* fault injection: IhVector passing false as is_favicon
IhVectorMutNotFavicon ==
    /\ ih_pc = "vector"
    /\ IF /\ vector_parse(ih_bytes).ok
          /\ big_enough(vector_parse(ih_bytes), DirectThreshold)
       THEN /\ ih_ret' = Icon("Svg", ih_path, FALSE)
            /\ ih_src' = [origin |-> "remote", content |-> ih_bytes]
            /\ ih_pc' = "done"
       ELSE /\ ih_pc' = "raster"
            /\ UNCHANGED <<ih_ret, ih_src>>
    /\ UNCHANGED <<ih_path, ih_net, ih_fs, ih_bytes>>

\* usvg::Tree::from_data on the fetched bytes; a parse failure and a size
\* below the threshold both go on to the raster attempt
IhVector ==
    /\ ih_pc = "vector"
    /\ IF /\ vector_parse(ih_bytes).ok
          /\ big_enough(vector_parse(ih_bytes), DirectThreshold)
       THEN /\ ih_ret' = Icon("Svg", ih_path, TRUE)
            /\ ih_src' = [origin |-> "remote", content |-> ih_bytes]
            /\ ih_pc' = "done"
       ELSE /\ ih_pc' = "raster"
            /\ UNCHANGED <<ih_ret, ih_src>>
    /\ UNCHANGED <<ih_path, ih_net, ih_fs, ih_bytes>>

\* ImageReader::new(Cursor::new(&bytes)).with_guessed_format() and decode()
IhRaster ==
    /\ ih_pc = "raster"
    /\ IF /\ raster_decode(ih_bytes).ok
          /\ big_enough(raster_decode(ih_bytes), DirectThreshold)
       THEN /\ ih_ret' = Icon("Raster", ih_path, TRUE)
            /\ ih_src' = [origin |-> "remote", content |-> ih_bytes]
            /\ ih_pc' = "done"
       ELSE /\ ih_pc' = "local"
            /\ UNCHANGED <<ih_ret, ih_src>>
    /\ UNCHANGED <<ih_path, ih_net, ih_fs, ih_bytes>>

\* the bytes the local raster branch decodes: nothing when the file cannot
\* be opened, and whatever was read before the error when the read fails
\* (the result of read_to_end is dropped)
local_data(f) == IF f.openOk /\ f.readOk THEN f.content ELSE Garbage

\* result_path.is_file() and the two local branches
IhLocal ==
    /\ ih_pc = "local"
    /\ IF ~ih_fs.isFile
       THEN ih_ret' = None /\ ih_src' = ih_src
       ELSE IF is_svg(ih_path)
       THEN /\ ih_ret' = Icon("Svg", ih_path, FALSE)
            /\ ih_src' = [origin |-> "local", content |-> ih_fs.content]
       ELSE IF /\ raster_decode(local_data(ih_fs)).ok
               /\ big_enough(raster_decode(local_data(ih_fs)), DirectThreshold)
       THEN /\ ih_ret' = Icon("Raster", ih_path, FALSE)
            /\ ih_src' = [origin |-> "local", content |-> local_data(ih_fs)]
       ELSE ih_ret' = None /\ ih_src' = ih_src
    /\ ih_pc' = "done"
    /\ UNCHANGED <<ih_path, ih_net, ih_fs, ih_bytes>>

\* the caller takes the Option<Icon>; the next call starts afresh
IhReturn ==
    /\ ih_pc = "done"
    /\ ih_pc' = "idle"
    /\ ih_path' = <<>>
    /\ ih_net' = NoNet
    /\ ih_fs' = NoFile
    /\ ih_bytes' = Garbage
    /\ ih_ret' = None
    /\ ih_src' = NoSrc

IhNext ==
    \/ IhCall /\ UNCHANGED <<fiVars, miVars, icVars, gnVars>>
    \/ IhSend /\ UNCHANGED <<fiVars, miVars, icVars, gnVars>>
    \/ IhBody /\ UNCHANGED <<fiVars, miVars, icVars, gnVars>>
    \/ IhVector /\ UNCHANGED <<fiVars, miVars, icVars, gnVars>>
    \/ IhRaster /\ UNCHANGED <<fiVars, miVars, icVars, gnVars>>
    \/ IhLocal /\ UNCHANGED <<fiVars, miVars, icVars, gnVars>>
    \/ IhReturn /\ UNCHANGED <<fiVars, miVars, icVars, gnVars>>

----------------------------------------------------------------------------
(* find_icon and find_icons *)

SearchSizes == {SearchThreshold - 1, SearchThreshold}
SearchContent == Content(SearchSizes)

\* icons_location() and system_icons()
UserRoot == <<"~/.local/share/icons">>
SystemRoot == <<"/usr/share/icons">>

FileNames == {
    <<"a", "p", ".", "s", "v", "g">>,
    <<"a", "p", ".", "p", "n", "g">>,
    <<"b", ".", "p", "n", "g">>,
    <<"a", "p">> }

Fragments == { <<"a", "p">>, <<"b">> }

FiUrls == { <<"h", ":", "/", "a">>, <<"/", "a">> }

\* what WalkDir yields next: an error (dropped by filter_map(|e| e.ok())),
\* or an entry, whose name may not be UTF-8, whose file may be unreadable
WalkErr == [kind |-> "err", utf8 |-> FALSE, name |-> <<>>, readable |-> FALSE,
            content |-> Garbage]
WalkEntries ==
    {WalkErr}
    \cup [kind : {"entry"}, utf8 : BOOLEAN, name : FileNames, readable : BOOLEAN,
          content : SearchContent]

\* entry.path(): the walked root joined with the entry's name
entry_path(root, e) == root \o <<"/">> \o e.name

\* tokio::fs::read_to_string and usvg::Tree::from_str
svg_file_size(e) ==
    IF e.readable THEN vector_parse(e.content) ELSE [ok |-> FALSE, w |-> 0, h |-> 0]

\* ImageReader::open(path) takes the format from the path's extension, and
\* decode() fails without one
image_file_size(e) ==
    IF e.readable /\ extension(e.name) = PngExt
    THEN raster_decode(e.content)
    ELSE [ok |-> FALSE, w |-> 0, h |-> 0]

\* does the sequence hold x (Vec::contains)
vec_contains(v, x) == \E i \in 1..Len(v) : v[i] = x

\* download_favicon(&url): an Error, or a sequence of candidates
FavCandidates == { <<"f", "1">>, <<"f", "2">> }
NoFav == [called |-> FALSE, ok |-> FALSE, data |-> <<>>]
FavOutcomes ==
    {[called |-> TRUE, ok |-> FALSE, data |-> <<>>]}
    \cup {[called |-> TRUE, ok |-> TRUE, data |-> d] :
              d \in {<<>>} \cup {<<c>> : c \in FavCandidates}
                    \cup {<<c, d2>> : c \in FavCandidates, d2 \in FavCandidates}}

FiInit ==
    /\ fi_pc = "idle"
    /\ fi_name = <<>>
    /\ fi_url = <<>>
    /\ fi_result = <<>>
    /\ fi_icons = <<>>
    /\ fi_dims = <<>>
    /\ fi_steps = 0
    /\ fi_fav = NoFav
    /\ fi_user = <<>>
    /\ fi_sys = <<>>

\* entry of find_icons(icon_name, url): result is empty, and the favicon
\* download is awaited only for a valid URL
FiCall ==
    /\ fi_pc = "idle"
    /\ \E n \in Fragments, u \in FiUrls :
          /\ fi_name' = n
          /\ fi_url' = u
          /\ fi_pc' = IF url_valid(u) THEN "favicon" ELSE "user"
    /\ fi_result' = <<>>
    /\ UNCHANGED <<fi_icons, fi_dims, fi_steps, fi_fav, fi_user, fi_sys>>

\* if let Ok(data) = favicon::download_favicon(&url).await { result.extend(data) }
FiFavicon ==
    /\ fi_pc = "favicon"
    /\ \E r \in FavOutcomes :
          /\ fi_fav' = r
          /\ fi_result' = IF r.ok THEN fi_result \o r.data ELSE fi_result
    /\ fi_pc' = "user"
    /\ UNCHANGED <<fi_name, fi_url, fi_icons, fi_dims, fi_steps, fi_user, fi_sys>>

walk_root == IF fi_pc = "user" THEN UserRoot ELSE SystemRoot

\* the size the loop body decodes for an entry, by the is_svg branch
entry_size(e) == IF is_svg(e.name) THEN svg_file_size(e) ELSE image_file_size(e)

\* fault injection: accepts without the !icons.contains(..) test
accepts_mut_no_dedup(icons, root, name, e) ==
    /\ e.kind = "entry"
    /\ e.utf8
    /\ contains(e.name, name)
    /\ entry_size(e).ok
    /\ big_enough(entry_size(e), SearchThreshold)

\* the conditions under which the loop body of find_icon pushes the path
accepts(icons, root, name, e) ==
    /\ e.kind = "entry"
    /\ e.utf8
    /\ contains(e.name, name)
    /\ entry_size(e).ok
    /\ big_enough(entry_size(e), SearchThreshold)
    /\ ~vec_contains(icons, entry_path(root, e))

\* one iteration of the for loop of find_icon
FiWalkStep ==
    /\ fi_pc \in {"user", "system"}
    /\ fi_steps < MaxWalk
    /\ \E e \in WalkEntries :
          IF accepts(fi_icons, walk_root, fi_name, e)
          THEN /\ fi_icons' = Append(fi_icons, entry_path(walk_root, e))
               /\ fi_dims' = Append(fi_dims, <<entry_size(e).w, entry_size(e).h>>)
          ELSE UNCHANGED <<fi_icons, fi_dims>>
    /\ fi_steps' = fi_steps + 1
    /\ UNCHANGED <<fi_pc, fi_name, fi_url, fi_result, fi_fav, fi_user, fi_sys>>

\* fault injection: extend putting the new paths in front
extend_mut_front(result, icons) == icons \o result

\* result.extend(find_icon(..).await)
extend(result, icons) == result \o icons

\* the walk is exhausted: find_icon returns icons, find_icons extends result
\* with it and goes on to the system root, or returns
FiWalkEnd ==
    /\ fi_pc \in {"user", "system"}
    /\ fi_result' = extend(fi_result, fi_icons)
    /\ IF fi_pc = "user"
       THEN /\ fi_user' = fi_icons
            /\ fi_pc' = "system"
            /\ fi_icons' = <<>>
            /\ fi_dims' = <<>>
            /\ fi_steps' = 0
            /\ UNCHANGED fi_sys
       ELSE /\ fi_sys' = fi_icons
            /\ fi_pc' = "done"
            /\ UNCHANGED <<fi_icons, fi_dims, fi_steps, fi_user>>
    /\ UNCHANGED <<fi_name, fi_url, fi_fav>>

\* the caller takes the result; the next call starts afresh
FiReturn ==
    /\ fi_pc = "done"
    /\ fi_pc' = "idle"
    /\ fi_name' = <<>>
    /\ fi_url' = <<>>
    /\ fi_result' = <<>>
    /\ fi_icons' = <<>>
    /\ fi_dims' = <<>>
    /\ fi_steps' = 0
    /\ fi_fav' = NoFav
    /\ fi_user' = <<>>
    /\ fi_sys' = <<>>

FiNext ==
    \/ FiCall /\ UNCHANGED <<ihVars, miVars, icVars, gnVars>>
    \/ FiFavicon /\ UNCHANGED <<ihVars, miVars, icVars, gnVars>>
    \/ FiWalkStep /\ UNCHANGED <<ihVars, miVars, icVars, gnVars>>
    \/ FiWalkEnd /\ UNCHANGED <<ihVars, miVars, icVars, gnVars>>
    \/ FiReturn /\ UNCHANGED <<ihVars, miVars, icVars, gnVars>>

----------------------------------------------------------------------------
(* move_icon, icon_save_path and convert_raster_to_svg_format *)

NormSizes == {SmallSize, DirectThreshold}
NormContent ==
    {Garbage, [kind |-> "vector", w |-> DirectThreshold, h |-> DirectThreshold]}
    \cup [kind : {"raster"}, w : {SmallSize}, h : NormSizes]

DisplayNames == {
    <<"A", "b">>,
    <<"A", " ", "b">>,
    <<"/", "A", "b">> }

MiRefs == {
    <<"h", ":", "/", "a", ".", "p", "n", "g">>,
    <<"/", "a", ".", "p", "n", "g">>,
    <<"/", "a", ".", "s", "v", "g">> }

\* qwa_icons_location(): home_dir() joined with .local/share/icons and
\* QuickWebApps
QwaDir == <<"~/.local/share/icons/QuickWebApps">>

\* PathBuf::join: an absolute right-hand side replaces the left-hand side
join(base, rel) ==
    IF rel # <<>> /\ Head(rel) = "/" THEN rel ELSE base \o <<"/">> \o rel

\* icon_save_path: qwa_icons_location().join(format!("{}.svg", icon_name))
icon_save_path(icon_name) == join(QwaDir, icon_name \o <<".", "s", "v", "g">>)

SavePaths == {icon_save_path(remove_spaces(n)) : n \in DisplayNames}

\* what a destination path holds
Absent == [kind |-> "absent", of |-> "-", w |-> 0, h |-> 0]
Partial == [kind |-> "partial", of |-> "-", w |-> 0, h |-> 0]
SvgDoc(w, h) == [kind |-> "svgdoc", of |-> "-", w |-> w, h |-> h]
RawCopy(c) == [kind |-> "copy", of |-> c.kind, w |-> c.w, h |-> c.h]

\* the environment of one call: whether create_dir_all succeeds, what the
\* GET does, what File::open and read_to_end do with the source, and what
\* the write to the destination does ("create": File::create fails and the
\* destination is untouched; "write": it is truncated and the write fails)
MiNet ==
    {[send |-> "err", success |-> FALSE, bodyOk |-> FALSE, body |-> Garbage]}
    \cup {[send |-> "ok", success |-> s, bodyOk |-> FALSE, body |-> Garbage] :
              s \in BOOLEAN}
    \cup {[send |-> "ok", success |-> FALSE, bodyOk |-> TRUE, body |-> Garbage]}
    \cup [send : {"ok"}, success : {TRUE}, bodyOk : {TRUE}, body : NormContent]
MiFs ==
    {[openOk |-> FALSE, readOk |-> FALSE, content |-> Garbage]}
    \cup {[openOk |-> TRUE, readOk |-> FALSE, content |-> Garbage]}
    \cup [openOk : {TRUE}, readOk : {TRUE}, content : NormContent]
WriteOutcomes == {"ok", "create", "write"}
MiNoNet == [send |-> "none", success |-> FALSE, bodyOk |-> FALSE, body |-> Garbage]
MiNoFs == [openOk |-> FALSE, readOk |-> FALSE, content |-> Garbage]
\* the environments that differ for a call on path: the network matters for a
\* URL only, the source file for a path only, and nothing else once
\* create_dir_all has failed
MiEnv(path) ==
    {[dirOk |-> FALSE, net |-> MiNoNet, fs |-> MiNoFs, wr |-> "ok"]}
    \cup (IF url_valid(path)
          THEN [dirOk : {TRUE}, net : MiNet, fs : {MiNoFs}, wr : WriteOutcomes]
          ELSE [dirOk : {TRUE}, net : {MiNoNet}, fs : MiFs, wr : WriteOutcomes])

NoInput == [name |-> <<>>, bytes |-> Garbage, conv |-> FALSE, wr |-> "none"]

\* the outcome of a call that panics
Panicked(cause, d, de) ==
    [status |-> "panicked", panic |-> cause, ret |-> <<>>, disk |-> d,
     dirExists |-> de, bytes |-> Garbage, conv |-> FALSE, wr |-> "none",
     wrote |-> FALSE]

\* the outcome of a call that returns
Returned(ret, d, bytes, conv, wr, wrote) ==
    [status |-> "returned", panic |-> "", ret |-> ret, disk |-> d,
     dirExists |-> TRUE, bytes |-> bytes, conv |-> conv, wr |-> wr,
     wrote |-> wrote]

\* svg::save(&save_path, &document)
save(d, save_path, doc, wr) ==
    IF wr = "ok" THEN [d EXCEPT ![save_path] = doc]
    ELSE IF wr = "write" THEN [d EXCEPT ![save_path] = Partial]
    ELSE d

\* Document::new().set("width", width).set("height", height)
document(data) == SvgDoc(data.w, data.h)

\* convert_raster_to_svg_format: the result of svg::save is dropped, and
\* save_path is returned whether or not the bytes decoded
convert_raster_to_svg_format(img_slice, icon_name, wr, d) ==
    LET save_path == icon_save_path(icon_name)
        data == raster_decode(img_slice)
    IN  IF data.ok
        THEN Returned(save_path, save(d, save_path, document(data), wr),
                      img_slice, TRUE, wr, wr = "ok")
        ELSE Returned(save_path, d, img_slice, TRUE, "none", FALSE)

\* std::fs::copy(&path, &save_path).unwrap(): fails when the source cannot
\* be opened and when the destination cannot be written
copy_icon(icon_name, env, d) ==
    LET save_path == icon_save_path(icon_name)
    IN  IF ~env.fs.openOk THEN Panicked("copy_source", d, TRUE)
        ELSE IF env.wr # "ok" THEN Panicked("copy_dest", d, TRUE)
        ELSE Returned(save_path,
                      [d EXCEPT ![save_path] =
                          RawCopy(IF env.fs.readOk THEN env.fs.content ELSE Garbage)],
                      Garbage, FALSE, "none", TRUE)

\* move_icon(path, output_name) on disk d
move_icon(path, output_name, env, d, de) ==
    LET icon_name == remove_spaces(output_name)
    IN  IF ~env.dirOk THEN Panicked("create_dir", d, de)
        ELSE IF url_valid(path)
        THEN IF env.net.send # "ok" THEN Panicked("send", d, TRUE)
             ELSE IF env.net.success
             THEN IF ~env.net.bodyOk THEN Panicked("bytes", d, TRUE)
                  ELSE convert_raster_to_svg_format(env.net.body, icon_name,
                                                    env.wr, d)
             ELSE Returned(<<>>, d, Garbage, FALSE, "none", FALSE)
        ELSE IF ~is_svg(path) /\ env.fs.openOk
        THEN IF ~env.fs.readOk THEN Panicked("read", d, TRUE)
             ELSE convert_raster_to_svg_format(env.fs.content, icon_name,
                                               env.wr, d)
        ELSE copy_icon(icon_name, env, d)

MiInit ==
    /\ mi_status = "none"
    /\ mi_panic = ""
    /\ mi_ret = <<>>
    /\ mi_in = NoInput
    /\ mi_wrote = FALSE
    /\ disk = [p \in SavePaths |-> Absent]
    /\ dirExists = FALSE

\* one call of move_icon, from its entry to its return or panic
MoveIcon ==
    \E path \in MiRefs, output_name \in DisplayNames :
     \E env \in MiEnv(path) :
       LET r == move_icon(path, output_name, env, disk, dirExists)
       IN  /\ mi_status' = r.status
           /\ mi_panic' = r.panic
           /\ mi_ret' = r.ret
           /\ mi_in' = [name |-> output_name, bytes |-> r.bytes,
                        conv |-> r.conv, wr |-> r.wr]
           /\ mi_wrote' = r.wrote
           /\ disk' = r.disk
           /\ dirExists' = r.dirExists

MiNext ==
    /\ MoveIcon
    /\ UNCHANGED <<ihVars, fiVars, icVars, gnVars>>

----------------------------------------------------------------------------
(* icon_cache_get and the IconCache behind ICON_CACHE *)

Threads == 1..NumThreads

CacheKeys == [name : {"edit", "add"}, size : {SmallSize}]

\* the mutex is the set of threads holding it; a handle is known by the
\* number of the materialization that made it
Free == {}
NoHandle == [gen |-> 0]
Handle(n) == [gen |-> n]

IcInit ==
    /\ ic_pc = [t \in Threads |-> "idle"]
    /\ ic_key = [t \in Threads |-> CHOOSE k \in CacheKeys : TRUE]
    /\ ic_ret = [t \in Threads |-> NoHandle]
    /\ ic_lock = Free
    /\ ic_cache = [k \in CacheKeys |-> NoHandle]
    /\ ic_loads = [k \in CacheKeys |-> 0]
    /\ ic_hist = [k \in CacheKeys |-> {}]

\* a UI callback calls icon_cache_get(name, size)
IcCall(t) ==
    /\ ic_pc[t] = "idle"
    /\ \E k \in CacheKeys : ic_key' = [ic_key EXCEPT ![t] = k]
    /\ ic_ret' = [ic_ret EXCEPT ![t] = NoHandle]
    /\ ic_pc' = [ic_pc EXCEPT ![t] = "lock"]
    /\ UNCHANGED <<ic_lock, ic_cache, ic_loads, ic_hist>>

\* fault injection: IcLock not waiting for the mutex to be free
IcLockMutNoExclusion(t) ==
    /\ ic_pc[t] = "lock"
    /\ ic_lock' = {t}
    /\ ic_pc' = [ic_pc EXCEPT ![t] = "get"]
    /\ UNCHANGED <<ic_key, ic_ret, ic_cache, ic_loads, ic_hist>>

\* ICON_CACHE.lock().unwrap(): blocks until the mutex is free
IcLock(t) ==
    /\ ic_pc[t] = "lock"
    /\ ic_lock = Free
    /\ ic_lock' = {t}
    /\ ic_pc' = [ic_pc EXCEPT ![t] = "get"]
    /\ UNCHANGED <<ic_key, ic_ret, ic_cache, ic_loads, ic_hist>>

\* IconCache::get, the lookup: a hit returns the handle the cache holds
IcLookup(t) ==
    /\ ic_pc[t] = "get"
    /\ IF ic_cache[ic_key[t]] # NoHandle
       THEN /\ ic_ret' = [ic_ret EXCEPT ![t] = ic_cache[ic_key[t]]]
            /\ ic_pc' = [ic_pc EXCEPT ![t] = "unlock"]
       ELSE /\ ic_pc' = [ic_pc EXCEPT ![t] = "load"]
            /\ UNCHANGED ic_ret
    /\ UNCHANGED <<ic_key, ic_lock, ic_cache, ic_loads, ic_hist>>

\* IconCache::get, the miss: a new handle is materialized and inserted; the
\* handle is identified by the number of the materialization that made it
IcLoad(t) ==
    /\ ic_pc[t] = "load"
    /\ ic_loads' = [ic_loads EXCEPT ![ic_key[t]] = @ + 1]
    /\ ic_cache' = [ic_cache EXCEPT ![ic_key[t]] = Handle(ic_loads'[ic_key[t]])]
    /\ ic_ret' = [ic_ret EXCEPT ![t] = Handle(ic_loads'[ic_key[t]])]
    /\ ic_pc' = [ic_pc EXCEPT ![t] = "unlock"]
    /\ UNCHANGED <<ic_key, ic_lock, ic_hist>>

\* icon_cache_get returns: the guard is dropped and the caller has the handle
IcUnlock(t) ==
    /\ ic_pc[t] = "unlock"
    /\ ic_lock' = ic_lock \ {t}
    /\ ic_hist' = [ic_hist EXCEPT ![ic_key[t]] = @ \cup {ic_ret[t]}]
    /\ ic_pc' = [ic_pc EXCEPT ![t] = "idle"]
    /\ UNCHANGED <<ic_key, ic_ret, ic_cache, ic_loads>>

IcNext ==
    \/ \E t \in Threads : IcCall(t) /\ UNCHANGED <<ihVars, fiVars, miVars, gnVars>>
    \/ \E t \in Threads : IcLock(t) /\ UNCHANGED <<ihVars, fiVars, miVars, gnVars>>
    \/ \E t \in Threads : IcLookup(t) /\ UNCHANGED <<ihVars, fiVars, miVars, gnVars>>
    \/ \E t \in Threads : IcLoad(t) /\ UNCHANGED <<ihVars, fiVars, miVars, gnVars>>
    \/ \E t \in Threads : IcUnlock(t) /\ UNCHANGED <<ihVars, fiVars, miVars, gnVars>>

----------------------------------------------------------------------------
(* get_icon_name_from_url *)

GnLabels == {<<"a">>, <<"b", "g">>}

\* the labels of ls joined by '.'
RECURSIVE join_labels(_)
join_labels(ls) ==
    IF Len(ls) = 1 THEN ls[1]
    ELSE ls[1] \o <<".">> \o join_labels(Tail(ls))

GnHosts ==
    UNION {{join_labels(ls) : ls \in [1..k -> GnLabels]} : k \in 1..MaxLabels}

\* the strings the function is called with: with and without a scheme, with
\* no authority, an empty host or a host of 1..MaxLabels labels, and with
\* and without a path
GnUrls ==
    {scheme \o authority \o p :
        scheme \in {<<>>, <<"h", ":">>},
        authority \in {<<>>, <<"/", "/">>} \cup {<<"/", "/">> \o h : h \in GnHosts},
        p \in {<<>>, <<"/", "p">>}}

NoHost == [some |-> FALSE, host |-> <<>>]

\* Url::host_str of a parsed URL: the text between the "//" that follows
\* the scheme and the next '/', None when there is no "//" or the host is
\* empty
host_str(url) ==
    LET c == FirstIndexOf(url, ":")
        rest == SubSeq(url, c + 1, Len(url))
    IN  IF Len(rest) >= 2 /\ rest[1] = "/" /\ rest[2] = "/"
        THEN LET after == SubSeq(rest, 3, Len(rest))
                 e == FirstIndexOf(after, "/")
                 host == IF e = 0 THEN after ELSE SubSeq(after, 1, e - 1)
             IN  IF host = <<>> THEN NoHost
                 ELSE [some |-> TRUE, host |-> host]
        ELSE NoHost

\* host.split('.').collect(): the pieces between the dots, one piece for a
\* string without a dot
RECURSIVE split(_, _)
split(s, c) ==
    LET i == FirstIndexOf(s, c)
    IN  IF i = 0 THEN <<s>>
        ELSE <<SubSeq(s, 1, i - 1)>> \o split(SubSeq(s, i + 1, Len(s)), c)

\* the usize subtraction a - b when it wraps: the result stands for
\* a - b + 2^64 when wrapped, which is beyond the length of any Vec
wrapping_sub(a, b) ==
    IF a >= b THEN [wrapped |-> FALSE, v |-> a - b]
    ELSE [wrapped |-> TRUE, v |-> a - b]

\* the bounds check of parts[i]
in_bounds(i, parts) == ~i.wrapped /\ i.v < Len(parts)

GnInit ==
    /\ gn_pc = "idle"
    /\ gn_url = <<>>
    /\ gn_host = NoHost
    /\ gn_parts = <<>>
    /\ gn_status = "none"
    /\ gn_panic = ""
    /\ gn_ret = <<>>

\* a caller calls get_icon_name_from_url(url)
GnCall ==
    /\ gn_pc = "idle"
    /\ \E url \in GnUrls : gn_url' = url
    /\ gn_pc' = "parse"
    /\ UNCHANGED <<gn_host, gn_parts, gn_status, gn_panic, gn_ret>>

\* match Url::parse(url): Err(_) => String::new()
GnParse ==
    /\ gn_pc = "parse"
    /\ IF url_valid(gn_url)
       THEN /\ gn_pc' = "host"
            /\ UNCHANGED <<gn_status, gn_ret>>
       ELSE /\ gn_pc' = "done"
            /\ gn_status' = "returned"
            /\ gn_ret' = <<>>
    /\ UNCHANGED <<gn_url, gn_host, gn_parts, gn_panic>>

\* match url.host_str(): None => String::new(), Some(host) => the split
GnHost ==
    /\ gn_pc = "host"
    /\ gn_host' = host_str(gn_url)
    /\ IF host_str(gn_url).some
       THEN /\ gn_parts' = split(host_str(gn_url).host, ".")
            /\ gn_pc' = "index"
            /\ UNCHANGED <<gn_status, gn_ret>>
       ELSE /\ gn_pc' = "done"
            /\ gn_status' = "returned"
            /\ gn_ret' = <<>>
            /\ UNCHANGED gn_parts
    /\ UNCHANGED <<gn_url, gn_panic>>

\* parts[parts.len() - 2].to_string(): with fewer than two parts the
\* subtraction panics in a build with overflow checks and wraps in one
\* without, where the index then fails the bounds check
GnIndex ==
    /\ gn_pc = "index"
    /\ LET i == wrapping_sub(Len(gn_parts), 2)
       IN  IF i.wrapped
           THEN /\ gn_status' = "panicked"
                /\ gn_panic' \in {"overflow", "bounds"}
                /\ gn_ret' = gn_ret
           ELSE IF in_bounds(i, gn_parts)
           THEN /\ gn_status' = "returned"
                /\ gn_ret' = gn_parts[i.v + 1]
                /\ gn_panic' = gn_panic
           ELSE /\ gn_status' = "panicked"
                /\ gn_panic' = "bounds"
                /\ gn_ret' = gn_ret
    /\ gn_pc' = "done"
    /\ UNCHANGED <<gn_url, gn_host, gn_parts>>

\* the caller takes the String; a panic is not returned from
GnReturn ==
    /\ gn_pc = "done"
    /\ gn_status = "returned"
    /\ gn_pc' = "idle"
    /\ gn_url' = <<>>
    /\ gn_host' = NoHost
    /\ gn_parts' = <<>>
    /\ gn_status' = "none"
    /\ gn_panic' = ""
    /\ gn_ret' = <<>>

GnNext ==
    \/ GnCall /\ UNCHANGED <<ihVars, fiVars, miVars, icVars>>
    \/ GnParse /\ UNCHANGED <<ihVars, fiVars, miVars, icVars>>
    \/ GnHost /\ UNCHANGED <<ihVars, fiVars, miVars, icVars>>
    \/ GnIndex /\ UNCHANGED <<ihVars, fiVars, miVars, icVars>>
    \/ GnReturn /\ UNCHANGED <<ihVars, fiVars, miVars, icVars>>

----------------------------------------------------------------------------
(* Specifications.  The five components share no state, so each is checked *)
(* under a specification of its own, the others standing still.            *)

Init == IhInit /\ FiInit /\ MiInit /\ IcInit /\ GnInit

Next == IhNext \/ FiNext \/ MiNext \/ IcNext \/ GnNext

Spec == Init /\ [][Next]_vars
SpecHandle == Init /\ [][IhNext]_vars
SpecSearch == Init /\ [][FiNext]_vars
SpecNorm == Init /\ [][MiNext]_vars
SpecCache == Init /\ [][IcNext]_vars
SpecName == Init /\ [][GnNext]_vars

----------------------------------------------------------------------------
(* Claims *)

C2_AcceptedPassedGate ==
    ih_ret.some =>
        /\ ih_src.content.kind \in {"vector", "raster"}
        /\ ih_src.content.w >= DirectThreshold
        /\ ih_src.content.h >= DirectThreshold

no_duplicates(v) == \A i, j \in 1..Len(v) : i # j => v[i] # v[j]

\* C3: the sequence find_icon builds and returns holds no path twice, only
\* paths whose file name contains the fragment, and only paths decoded to a
\* width and a height of at least 64, whatever the walk yields (errors,
\* unreadable or undecodable files, the same path again).
C3_FindIconSound ==
    /\ Len(fi_dims) = Len(fi_icons)
    /\ \A v \in {fi_icons, fi_user, fi_sys} :
          /\ no_duplicates(v)
          /\ \A i \in 1..Len(v) : contains(file_name(v[i]), fi_name)
    /\ \A i \in 1..Len(fi_dims) :
          /\ fi_dims[i][1] >= SearchThreshold
          /\ fi_dims[i][2] >= SearchThreshold

\* C3 witness: the walk of the system root yielded MaxWalk entries and
\* returned one path, the others having been skipped
C3_WalkReturnedOne ==
    /\ fi_pc = "done"
    /\ Len(fi_sys) = 1
    /\ fi_steps = MaxWalk

\* C4: the result of find_icons is the favicon candidates (none unless the
\* reference is a URL and download_favicon returned Ok), then the matches
\* under the user root, then the matches under the system root; nothing is
\* appended before the favicon download is over, and the user root's
\* matches are appended before the system root's.
C4_ResolveOrder ==
    LET fav == IF url_valid(fi_url) /\ fi_fav.ok THEN fi_fav.data ELSE <<>>
    IN  /\ ~url_valid(fi_url) => ~fi_fav.called
        /\ fi_pc = "favicon" => fi_result = <<>>
        /\ fi_pc = "user" => fi_result = fav
        /\ fi_pc = "system" => fi_result = fav \o fi_user
        /\ fi_pc = "done" => fi_result = fav \o fi_user \o fi_sys
        /\ \A i \in 1..Len(fi_user) : Head(fi_user[i]) = Head(UserRoot)
        /\ \A i \in 1..Len(fi_sys) : Head(fi_sys[i]) = Head(SystemRoot)

\* C4 witness: a finished call with candidates from all three sources
C4_AllThreeSources ==
    /\ fi_pc = "done"
    /\ fi_fav.ok
    /\ fi_fav.data # <<>>
    /\ fi_user # <<>>
    /\ fi_sys # <<>>

\* C5: when convert_raster_to_svg_format cannot write the destination file,
\* the call does not return normally.
C5_WriteFailurePropagates ==
    (mi_in.conv /\ mi_in.wr \in {"create", "write"}) => mi_status # "returned"

\* the path the specification gives for a display name
spec_path(name) ==
    QwaDir \o <<"/">> \o remove_spaces(name) \o <<".", "s", "v", "g">>

\* C6: a call of move_icon that normalizes a decodable raster returns
\* {home}/.local/share/icons/QuickWebApps/{name without spaces}.svg, the
\* directory exists, and the file at that path is the vector document
\* declaring the raster's width and height.
C6_NormalizedAtPath ==
    (mi_status = "returned" /\ mi_in.conv /\ raster_decode(mi_in.bytes).ok) =>
        /\ mi_ret = spec_path(mi_in.name)
        /\ dirExists
        /\ disk[mi_ret] = SvgDoc(mi_in.bytes.w, mi_in.bytes.h)

\* C7: move_icon aborts on a persistence failure only (the directory cannot
\* be created, the destination cannot be written), never on a failed fetch
\* or a source that does not exist or cannot be read.
C7_OnlyPersistenceAborts ==
    mi_status = "panicked" => mi_panic \in {"create_dir", "copy_dest"}

\* C8: at most one thread is inside the get-or-insert at a time, a key's
\* handle is materialized at most once, every get of the key returns that
\* one cached instance, and a key once cached stays cached.
C8_CacheOnce ==
    /\ Cardinality({t \in Threads : ic_pc[t] \in {"get", "load", "unlock"}}) <= 1
    /\ \A t \in Threads : ic_pc[t] \in {"get", "load", "unlock"} => ic_lock = {t}
    /\ \A k \in CacheKeys :
          /\ ic_loads[k] <= 1
          /\ ic_hist[k] \subseteq {ic_cache[k]}
          /\ ic_loads[k] = 1 => ic_cache[k] = Handle(1)
          /\ ic_loads[k] = 0 => ic_cache[k] = NoHandle /\ ic_hist[k] = {}

\* C8 witness: a get of a key an earlier get already returned is about to
\* return the cached instance, while another thread waits for the lock
C8_SecondGetHits ==
    \E t \in Threads :
        /\ ic_pc[t] = "unlock"
        /\ ic_hist[ic_key[t]] = {ic_ret[t]}
        /\ ic_ret[t] = ic_cache[ic_key[t]]
        /\ \E u \in Threads : ic_pc[u] = "lock" /\ ic_key[u] = ic_key[t]

\* C9: when the same raster bytes are normalized twice in a row under
\* display names that are equal once their spaces are removed, both calls
\* return the same path, the second call leaves its vector document there,
\* and the file declares the same width and height after the second call as
\* after the first.
C9_Idempotent ==
    [][(/\ mi_status = "returned" /\ mi_in.conv /\ raster_decode(mi_in.bytes).ok
        /\ mi_status' = "returned" /\ mi_in'.conv
        /\ mi_in'.bytes = mi_in.bytes
        /\ remove_spaces(mi_in'.name) = remove_spaces(mi_in.name))
       => (/\ mi_ret' = mi_ret
           /\ disk'[mi_ret'].kind = "svgdoc"
           /\ disk'[mi_ret'].w = disk[mi_ret].w
           /\ disk'[mi_ret'].h = disk[mi_ret].h)]_vars

\* C10 (as stated): fetched bytes are handed to raster decode only when
\* vector parsing failed outright.
C10_RasterOnlyAfterParseFailure ==
    ih_pc = "raster" => ~vector_parse(ih_bytes).ok

\* C10 (amended): fetched bytes that parse as a vector document whose width
\* or height is below 96 are not accepted as Vector and are then handed to
\* raster decode like bytes that do not parse; raster decode rejects them,
\* so the direct fetch never yields an Icon for them, and an Icon accepted
\* as Raster comes of bytes that did not parse as a vector document.
C10_SmallVectorNeverAccepted ==
    /\ (vector_parse(ih_bytes).ok /\ ~big_enough(vector_parse(ih_bytes), DirectThreshold))
          => ~(ih_ret.some /\ ih_src.origin = "remote")
    /\ (ih_ret.some /\ ih_src.origin = "remote" /\ ih_ret.icon = "Raster")
          => ~vector_parse(ih_bytes).ok

\* C10 witness: a too-small vector document has been through both decoders
\* of the direct fetch and the call has gone on to the local path
C10_SmallVectorFellThrough ==
    /\ ih_pc = "local"
    /\ vector_parse(ih_bytes).ok
    /\ ~big_enough(vector_parse(ih_bytes), DirectThreshold)

\* C11: a readable local file whose content is a vector document of at
\* least 96x96 is accepted by image_handle as Vector whatever its name, with
\* an svg extension, another extension or none.
C11_VectorByContent ==
    (/\ ih_pc = "done"
     /\ ~url_valid(ih_path)
     /\ ih_fs.isFile /\ ih_fs.openOk /\ ih_fs.readOk
     /\ vector_parse(ih_fs.content).ok
     /\ big_enough(vector_parse(ih_fs.content), DirectThreshold))
    => (ih_ret.some /\ ih_ret.icon = "Svg")

\* C12: image_handle yields an Icon from the direct fetch only when the
\* fetch succeeded, that is the request was answered, with a success status,
\* and the body was received; a failed fetch never yields an Icon.
C12_FailedFetchNeverIcon ==
    (ih_pc = "done" /\ ih_ret.some /\ ih_src.origin = "remote")
    => (ih_net.send = "ok" /\ ih_net.success /\ ih_net.bodyOk)

\* C14: when the bytes move_icon fetched or read cannot be decoded as a
\* raster image, the call does not return the destination path while having
\* written nothing there: it returns no path, or this call wrote the file.
C14_UndecodableNotReturned ==
    (/\ mi_status = "returned"
     /\ mi_in.conv
     /\ ~raster_decode(mi_in.bytes).ok)
    => (mi_ret = <<>> \/ mi_wrote)

\* the label before the last dot of host, what C13 names the
\* second-to-last dot-separated label
second_to_last_label(host) ==
    LET d == LastIndexOf(host, ".")
        pre == SubSeq(host, 1, d - 1)
    IN  SubSeq(pre, LastIndexOf(pre, ".") + 1, Len(pre))

\* C13: get_icon_name_from_url always returns a string and never panics,
\* also for a host of a single label; the string is empty when the input is
\* no valid URL or the URL has no host, and the second-to-last label of the
\* host when the host has two labels or more.
C13_Total ==
    gn_pc = "done" =>
        /\ gn_status = "returned"
        /\ (~url_valid(gn_url) \/ ~host_str(gn_url).some) => gn_ret = <<>>
        /\ (/\ url_valid(gn_url)
            /\ host_str(gn_url).some
            /\ LastIndexOf(host_str(gn_url).host, ".") > 0)
           => gn_ret = second_to_last_label(host_str(gn_url).host)

====
